---- MODULE Spec2Model ----
(***************************************************************************)
(* Model of scripts/run_scheduler.py, the herblore profit scheduling       *)
(* runner: the numeric normalizers, the price index, the recipe valuation  *)
(* (compute_recipe), the ranking of main() and the webhook delivery        *)
(* (discord_post).                                                         *)
(*                                                                         *)
(* Python values are tagged records.  A string is a tuple of one-character *)
(* strings, so that lower(), strip(), startswith() and float() are         *)
(* computed character by character.  A number is an extended rational n/d  *)
(* in lowest terms: d > 0 is a finite value, 1/0 is +inf, -1/0 is -inf and *)
(* 0/0 is NaN (json.loads yields inf for 1e999 and float() for "inf").     *)
(* Arithmetic on finite values is exact; rounding of IEEE doubles is not   *)
(* modelled.  An uncaught Python exception is the value Raise(exc).        *)
(***************************************************************************)
EXTENDS Integers, Sequences, FiniteSets, TLC

\* ------------------------------------------------------------------ values

None == [t |-> "none"]
Str(s) == [t |-> "str", s |-> s]
Bool(b) == [t |-> "bool", b |-> b]
List(items) == [t |-> "list", items |-> items]
Dict(kv) == [t |-> "dict", kv |-> kv]
Raise(exc) == [t |-> "raise", exc |-> exc]

IsRaise(v) == v.t = "raise"

Abs(i) == IF i < 0 THEN -i ELSE i

Sign(i) == IF i < 0 THEN -1 ELSE IF i > 0 THEN 1 ELSE 0

RECURSIVE GCD(_, _)
GCD(a, b) == IF b = 0 THEN a ELSE GCD(b, a % b)

\* The number n/d in lowest terms with d >= 0; d = 0 keeps only the sign of n.
Num(n, d) ==
    IF d = 0 THEN [t |-> "num", n |-> Sign(n), d |-> 0]
    ELSE LET g == GCD(Abs(n), Abs(d))
             s == IF d < 0 THEN -1 ELSE 1
         IN [t |-> "num", n |-> s * (n \div g), d |-> s * (d \div g)]

Whole(i) == Num(i, 1)
Inf == Num(1, 0)
NegInf == Num(-1, 0)
NaN == Num(0, 0)

IsNum(v) == v.t = "num"
IsFinite(x) == x.d > 0
IsNaN(x) == x.d = 0 /\ x.n = 0

\* IEEE addition: inf + (-inf) and anything with NaN is NaN.
NumAdd(a, b) ==
    IF IsNaN(a) \/ IsNaN(b) THEN NaN
    ELSE IF a.d = 0 /\ b.d = 0 THEN (IF a.n = b.n THEN a ELSE NaN)
    ELSE IF a.d = 0 THEN a
    ELSE IF b.d = 0 THEN b
    ELSE Num(a.n * b.d + b.n * a.d, a.d * b.d)

NumNeg(a) == [t |-> "num", n |-> -a.n, d |-> a.d]

NumSub(a, b) == NumAdd(a, NumNeg(b))

\* IEEE multiplication: 0 * inf is NaN.  Finite operands are cross-cancelled
\* first so that the products stay small.
NumMul(a, b) ==
    IF IsNaN(a) \/ IsNaN(b) THEN NaN
    ELSE IF a.d = 0 \/ b.d = 0 THEN Num(a.n * b.n, 0)
    ELSE LET g1 == GCD(Abs(a.n), b.d)
             g2 == GCD(Abs(b.n), a.d)
         IN Num((a.n \div g1) * (b.n \div g2), (a.d \div g2) * (b.d \div g1))

\* a / b for b > 0 (the only divisions of the program: by 4.0 and by a
\* checked XP_per_craft): x / inf is 0, inf / inf is NaN.
NumDiv(a, b) ==
    IF IsNaN(a) \/ IsNaN(b) THEN NaN
    ELSE IF b.d = 0 THEN (IF a.d = 0 THEN NaN ELSE Whole(0))
    ELSE NumMul(a, Num(b.d, b.n))

\* a < b; every comparison with NaN is false.
NumLt(a, b) ==
    IF IsNaN(a) \/ IsNaN(b) THEN FALSE
    ELSE IF a.d = 0 \/ b.d = 0
         THEN (IF a.d = 0 /\ b.d = 0 THEN a.n < b.n
               ELSE IF a.d = 0 THEN a.n < 0
               ELSE b.n > 0)
    ELSE a.n * b.d < b.n * a.d

NumGt(a, b) == NumLt(b, a)

NumLe(a, b) == NumLt(a, b) \/ (~IsNaN(a) /\ a = b)

\* int(f): truncation toward zero; OverflowError for an infinity and
\* ValueError for NaN.
Trunc(x) ==
    IF x.d = 0 THEN Raise(IF IsNaN(x) THEN "ValueError" ELSE "OverflowError")
    ELSE IF x.n >= 0 THEN Whole(x.n \div x.d) ELSE Whole(-((-x.n) \div x.d))

\* math.ceil(f), with the same exceptions as int(f).
Ceil(x) ==
    IF x.d = 0 THEN Raise(IF IsNaN(x) THEN "ValueError" ELSE "OverflowError")
    ELSE Whole(-((-x.n) \div x.d))

\* bool(value)
Truthy(v) ==
    CASE v.t = "none" -> FALSE
      [] v.t = "bool" -> v.b
      [] v.t = "num" -> ~(v.d > 0 /\ v.n = 0)
      [] v.t = "str" -> v.s # << >>
      [] v.t = "list" -> v.items # << >>
      [] v.t = "dict" -> v.kv # << >>

\* ----------------------------------------------------------------- strings

UpperAlpha == <<"A","B","C","D","E","F","G","H","I","J","K","L","M",
                "N","O","P","Q","R","S","T","U","V","W","X","Y","Z">>

LowerAlpha == <<"a","b","c","d","e","f","g","h","i","j","k","l","m",
                "n","o","p","q","r","s","t","u","v","w","x","y","z">>

Digits == <<"0","1","2","3","4","5","6","7","8","9">>

LowerChar(c) ==
    IF \E i \in 1..Len(UpperAlpha) : UpperAlpha[i] = c
    THEN LowerAlpha[CHOOSE i \in 1..Len(UpperAlpha) : UpperAlpha[i] = c]
    ELSE c

\* str.lower()
Lower(s) == [i \in 1..Len(s) |-> LowerChar(s[i])]

\* str.startswith(prefix)
StartsWith(s, prefix) ==
    Len(s) >= Len(prefix) /\ SubSeq(s, 1, Len(prefix)) = prefix

RECURSIVE LStrip(_)
LStrip(s) == IF s # << >> /\ Head(s) = " " THEN LStrip(Tail(s)) ELSE s

RECURSIVE RStrip(_)
RStrip(s) ==
    IF s # << >> /\ s[Len(s)] = " " THEN RStrip(SubSeq(s, 1, Len(s) - 1)) ELSE s

\* str.strip()
Strip(s) == RStrip(LStrip(s))

\* str.replace(",", "")
RemoveCommas(s) == SelectSeq(s, LAMBDA c : c # ",")

IsDigit(c) == \E i \in 1..10 : Digits[i] = c

DigitVal(c) == (CHOOSE i \in 1..10 : Digits[i] = c) - 1

RECURSIVE DigitsVal(_)
DigitsVal(s) ==
    IF s = << >> THEN 0 ELSE 10 * DigitsVal(SubSeq(s, 1, Len(s) - 1)) + DigitVal(s[Len(s)])

\* float(s) for a string of digits and letters: a run of digits is its value,
\* the words inf, infinity and nan (any case) are the special values, and a
\* string without any digit is a ValueError.  Strings mixing digits with
\* other characters ("1e5", "1.5") are outside the modelled inputs.
ParseFloat(s) ==
    CASE s # << >> /\ (\A i \in 1..Len(s) : IsDigit(s[i])) -> Whole(DigitsVal(s))
      [] Lower(s) \in {<<"i","n","f">>, <<"i","n","f","i","n","i","t","y">>} -> Inf
      [] Lower(s) = <<"n","a","n">> -> NaN
      [] \A i \in 1..Len(s) : ~IsDigit(s[i]) -> Raise("ValueError")

\* str(value) for the values a RecipeName takes in the modelled catalogs.
PyStr(v) ==
    CASE v.t = "str" -> v.s
      [] v.t = "none" -> <<"N","o","n","e">>
      [] v.t = "bool" -> IF v.b THEN <<"T","r","u","e">> ELSE <<"F","a","l","s","e">>

\* dict.get(key, default): the value of the last pair with that key.
DictGet(d, key, default) ==
    LET hits == {i \in 1..Len(d.kv) : d.kv[i][1] = key}
    IN IF hits = {} THEN default
       ELSE d.kv[CHOOSE i \in hits : \A j \in hits : j <= i][2]

\* ------------------------------------------------------- numeric normalizer

MISSING_MARKER == <<"_","_","M","I","S","S","I","N","G","_","_">>

OCR_MARKER == <<"_","_","O","C","R","_","U","N","C","E","R","T","A","I","N","_","_">>

is_marker_missing(value) ==
    \/ value = None
    \/ /\ value.t = "str"
       /\ (StartsWith(value.s, MISSING_MARKER) \/ StartsWith(value.s, OCR_MARKER))

safe_float(value) ==
    IF is_marker_missing(value) THEN None
    ELSE IF value.t = "num" THEN value
    ELSE IF value.t = "bool" THEN (IF value.b THEN Whole(1) ELSE Whole(0))
    ELSE IF value.t = "str"
         THEN LET f == ParseFloat(RemoveCommas(value.s))
              IN IF IsRaise(f) THEN None ELSE f
    ELSE None

safe_int(value) ==
    LET f == safe_float(value)
    IN IF f = None THEN None
       ELSE LET i == Trunc(f) IN IF IsRaise(i) THEN None ELSE i

\* ------------------------------------------------------------- constants

\* GE_TAX = 0.02
GE_TAX == Num(1, 50)

\* TAX_MULTIPLIER = 1.0 - GE_TAX
TAX_MULTIPLIER == NumSub(Whole(1), GE_TAX)

\* AMULET_BONUS_DOSES = 0.15
AMULET_BONUS_DOSES == Num(3, 20)

\* GOGGLES_SECONDARY_MULT = 0.9
GOGGLES_SECONDARY_MULT == Num(9, 10)

ALERT_GP_PER_HOUR == 3000000

ALERT_XP_PER_HOUR == 250000

DISCORD_CONTENT_LIMIT == 1900

\* -------------------------------------------------------------- price index

\* A name_to_price dict: a function from names (strings) to prices.
EmptyIndex == [k \in {} |-> None]

IndexPut(idx, k, v) == [x \in DOMAIN idx \cup {k} |-> IF x = k THEN v ELSE idx[x]]

\* name_to_price.get(key): None for a key that is not stored, TypeError for
\* an unhashable key.
IndexGet(idx, key) ==
    IF key.t \in {"list", "dict"} THEN Raise("TypeError")
    ELSE IF key.t = "str" /\ key.s \in DOMAIN idx THEN idx[key.s]
    ELSE None

name_keys == <<"name", "item_name">>

price_keys == <<"price", "ge_price", "avg", "value", "high", "low">>

\* The first candidate name field of the item that holds a string, or None.
ItemNameOf(item) ==
    LET hits == {i \in 1..Len(name_keys) : DictGet(item, name_keys[i], None).t = "str"}
    IN IF hits = {} THEN None
       ELSE DictGet(item, name_keys[CHOOSE i \in hits : \A j \in hits : i <= j], None)

\* The first candidate price field of the item that holds an int or a float
\* (a bool is an int), as a float; or None.
ItemPriceOf(item) ==
    LET hits == {i \in 1..Len(price_keys) :
                    DictGet(item, price_keys[i], None).t \in {"num", "bool"}}
    IN IF hits = {} THEN None
       ELSE safe_float(DictGet(item, price_keys[CHOOSE i \in hits : \A j \in hits : i <= j], None))

\* One iteration of the inner loop of build_name_to_price: the pair is stored
\* under the name as written and under its lowercase form.
IngestItem(idx, item) ==
    IF item.t # "dict" THEN idx
    ELSE LET name == ItemNameOf(item)
             price == ItemPriceOf(item)
         IN IF name.t = "str" /\ price.t = "num"
            THEN IndexPut(IndexPut(idx, name.s, price), Lower(name.s), price)
            ELSE idx

RECURSIVE IngestContainer(_, _, _)
IngestContainer(idx, container, i) ==
    IF i > Len(container.kv) THEN idx
    ELSE IngestContainer(IngestItem(idx, container.kv[i][2]), container, i + 1)

RECURSIVE IngestContainers(_, _, _)
IngestContainers(idx, containers, i) ==
    IF i > Len(containers) THEN idx
    ELSE IngestContainers(IngestContainer(idx, containers[i], 1), containers, i + 1)

container_keys == <<"items", "data", "prices">>

build_name_to_price(dump_obj) ==
    IF dump_obj.t # "dict" THEN EmptyIndex
    ELSE LET found == SelectSeq(
                 [i \in 1..Len(container_keys) |-> DictGet(dump_obj, container_keys[i], None)],
                 LAMBDA v : v.t = "dict")
             containers == IF found = << >> THEN <<dump_obj>> ELSE found
         IN IngestContainers(EmptyIndex, containers, 1)

price_of(name_to_price, item_name) ==
    IF ~Truthy(item_name) \/ is_marker_missing(item_name) THEN None
    ELSE LET exact == IndexGet(name_to_price, item_name)
         IN IF IsRaise(exact) THEN exact
            ELSE IF Truthy(exact) THEN exact
            ELSE IF item_name.t # "str" THEN Raise("AttributeError")
            ELSE IndexGet(name_to_price, Str(Lower(item_name.s)))

price_per_dose_of_output(name_to_price, output_item_name) ==
    LET p4 == price_of(name_to_price, output_item_name)
    IN IF IsRaise(p4) \/ p4 = None THEN p4 ELSE NumDiv(p4, Whole(4))

\* ------------------------------------------------------------ material cost

\* The cost of one material line, None when the line makes the whole cost
\* absent, or the exception the line raises.
\* LineCost with a dose-scaled line priced as a plain one.
LineCostPlain(name_to_price, m, n) ==
    IF m.t # "dict" THEN Raise("AttributeError")
    ELSE LET item == DictGet(m, "ItemName", None)
             qty == safe_float(DictGet(m, "Quantity", None))
             p == price_of(name_to_price, item)
         IN IF is_marker_missing(item) \/ qty = None THEN None
            ELSE IF IsRaise(p) \/ p = None THEN p
            ELSE NumMul(p, qty)

LineCost(name_to_price, m, n) ==
    IF m.t # "dict" THEN Raise("AttributeError")
    ELSE LET item == DictGet(m, "ItemName", None)
             qty == safe_float(DictGet(m, "Quantity", None))
             is_dose_scaled ==
                 \/ Truthy(DictGet(m, "IsDoseScaledFromFour", Bool(FALSE)))
                 \/ Truthy(DictGet(m, "DoseScaledFromFourPerDose", Bool(FALSE)))
             p == price_of(name_to_price, item)
         IN IF is_marker_missing(item) \/ qty = None THEN None
            ELSE IF IsRaise(p) \/ p = None THEN p
            ELSE IF is_dose_scaled THEN NumMul(NumMul(NumDiv(p, Whole(4)), n), qty)
            ELSE NumMul(p, qty)

RECURSIVE CostLoop(_, _, _, _, _)
CostLoop(name_to_price, mats, n, i, total) ==
    IF i > Len(mats) THEN total
    ELSE LET c == LineCost(name_to_price, mats[i], n)
         IN IF c.t # "num" THEN c
            ELSE CostLoop(name_to_price, mats, n, i + 1, NumAdd(total, c))

compute_material_cost(name_to_price, mats, recipe_type, n) ==
    CostLoop(name_to_price, mats, n, 1, Whole(0))

\* ------------------------------------------------------------ compute_recipe

\* An entry of invalid_reasons: the text, and for the f-string reasons the
\* item name that is formatted into it.
Reason(msg) == [t |-> "reason", msg |-> msg, item |-> << >>]

ReasonFor(msg, item) == [t |-> "reason", msg |-> msg, item |-> item]

If(cond, reason) == IF cond THEN <<reason>> ELSE << >>

\* The checks of lines 222-241, in the order of the code.
StructuralReasons(base_mats, sec_mats, output_item_name, n, xp_per_craft, xp_per_hour) ==
    LET shape == base_mats.t # "list" \/ sec_mats.t # "list"
        bad_n == n = None \/ NumLe(n, Whole(0))
        bad_xpc == xp_per_craft = None \/ NumLe(xp_per_craft, Whole(0))
        bad_xph == xp_per_hour = None \/ NumLe(xp_per_hour, Whole(0))
    IN If(shape, Reason("Invalid materials list shape"))
       \o If(is_marker_missing(output_item_name), Reason("Missing OutputItemName"))
       \o If(shape, Reason("Invalid materials list shape"))
       \o If(is_marker_missing(output_item_name), Reason("Missing OutputItemName"))
       \o If(bad_n, Reason("Missing/invalid N"))
       \o If(bad_xpc, Reason("Missing/invalid XP_per_craft"))
       \o If(bad_xph, Reason("Missing/invalid XP_per_hour"))
       \o If(bad_n, Reason("Missing/invalid N"))
       \o If(bad_xpc, Reason("Missing/invalid XP_per_craft"))
       \o If(bad_xph, Reason("Missing/invalid XP_per_hour"))

\* The early price existence check of one material list (lines 244-251 and
\* 254-261): the reason it appends, None when it appends none, or the
\* exception raised.
RECURSIVE ScanMaterials(_, _, _, _)
ScanMaterials(name_to_price, mats, i, kind) ==
    IF i > Len(mats) THEN None
    ELSE LET m == mats[i]
             item == DictGet(m, "ItemName", None)
         IN IF m.t # "dict" THEN Raise("AttributeError")
            ELSE IF is_marker_missing(item)
                 THEN Reason(IF kind = "base" THEN "Missing base material ItemName"
                             ELSE "Missing secondary material ItemName")
            ELSE IF item.t # "str" THEN Raise("AttributeError")
            ELSE IF Lower(item.s) \notin DOMAIN name_to_price
                 THEN ReasonFor(IF kind = "base" THEN "Missing price for base material"
                                ELSE "Missing price for secondary material", item.s)
            ELSE ScanMaterials(name_to_price, mats, i + 1, kind)

\* compute_recipe is written as the chain of its blocks, each handing its
\* locals to the next: the value of a block is the dict compute_recipe
\* returns (with the local is_alert kept beside it) or the exception raised.

\* Lines 309-329
Assemble(f, invalid_reasons, profit_per_craft, crafts_per_hour, gp_per_hour) ==
    [t |-> "dict",
     RecipeName |-> f.recipe_name,
     OutputItemName |-> f.output_item_name,
     RecipeType |-> f.recipe_type,
     N |-> f.n,
     XP_per_craft |-> f.xp_per_craft,
     XP_per_hour |-> f.xp_per_hour,
     crafts_per_hour |-> crafts_per_hour,
     profit_per_craft |-> profit_per_craft,
     gp_per_hour |-> gp_per_hour,
     valid |-> Len(invalid_reasons) = 0,
     invalid_reasons |-> invalid_reasons,
     GogglesAllowed |-> f.goggles_allowed,
     is_alert |-> /\ Len(invalid_reasons) = 0
                  /\ gp_per_hour # None
                  /\ f.xp_per_hour # None
                  /\ NumGt(gp_per_hour, Whole(ALERT_GP_PER_HOUR))
                  /\ NumGt(f.xp_per_hour, Whole(ALERT_XP_PER_HOUR))]

\* Line 307
GpPerHour(f, invalid_reasons, profit_per_craft, crafts_per_hour) ==
    Assemble(f, invalid_reasons, profit_per_craft, crafts_per_hour,
             NumMul(profit_per_craft, crafts_per_hour))

\* ProfitAndRates with the three figures of an invalid recipe left at zero
\* instead of None.
ProfitAndRatesZero(f, invalid_reasons, total_cost, revenue_after_tax) ==
    IF invalid_reasons = << >>
    THEN GpPerHour(f, invalid_reasons, NumSub(revenue_after_tax, total_cost),
                   NumDiv(f.xp_per_hour, f.xp_per_craft))
    ELSE Assemble(f, invalid_reasons, Whole(0), Whole(0), Whole(0))

\* Lines 299-307
ProfitAndRates(f, invalid_reasons, total_cost, revenue_after_tax) ==
    IF invalid_reasons = << >>
    THEN GpPerHour(f, invalid_reasons, NumSub(revenue_after_tax, total_cost),
                   NumDiv(f.xp_per_hour, f.xp_per_craft))
    ELSE Assemble(f, invalid_reasons, None, None, None)

\* Lines 293-297
RevenueOf(f, reasons, total_cost, price_per_dose) ==
    IF IsRaise(price_per_dose) THEN price_per_dose
    ELSE IF reasons = << >> /\ price_per_dose = None
    THEN ProfitAndRates(f, <<Reason("Missing price for output item")>>, total_cost, None)
    ELSE IF reasons = << >>
    THEN ProfitAndRates(f, reasons, total_cost,
                        NumMul(NumMul(price_per_dose, f.expected_doses), TAX_MULTIPLIER))
    ELSE ProfitAndRates(f, reasons, total_cost, None)

\* Lines 287-292
Revenue(name_to_price, f, reasons, total_cost) ==
    RevenueOf(f, reasons, total_cost,
              IF reasons = << >>
              THEN price_per_dose_of_output(name_to_price, f.output_item_name)
              ELSE None)

\* Lines 276-285
CostsOf(name_to_price, f, base_cost, secondary_cost) ==
    IF IsRaise(base_cost) THEN base_cost
    ELSE IF IsRaise(secondary_cost) THEN secondary_cost
    ELSE IF base_cost # None /\ secondary_cost # None
    THEN Revenue(name_to_price, f, << >>,
                 NumAdd(base_cost,
                        NumMul(secondary_cost,
                               IF f.goggles_allowed THEN GOGGLES_SECONDARY_MULT
                               ELSE Whole(1))))
    ELSE Revenue(name_to_price, f,
                 If(base_cost = None, Reason("Missing price for base materials"))
                 \o If(secondary_cost = None, Reason("Missing price for secondary materials")),
                 None)

\* Lines 269-279
Costs(name_to_price, f, reasons) ==
    IF reasons = << >>
    THEN CostsOf(name_to_price, f,
                 compute_material_cost(name_to_price, f.base_mats.items, f.recipe_type, f.n),
                 compute_material_cost(name_to_price, f.sec_mats.items, f.recipe_type, f.n))
    ELSE Revenue(name_to_price, f, reasons, None)

\* Lines 253-261
SecondaryScanned(name_to_price, f, sec_scan) ==
    IF IsRaise(sec_scan) THEN sec_scan
    ELSE Costs(name_to_price, f, If(sec_scan # None, sec_scan))

\* BaseScanned with the secondary list scanned whatever the base list gave.
BaseScannedBoth(name_to_price, f, reasons, base_scan) ==
    IF IsRaise(base_scan) THEN base_scan
    ELSE IF reasons = << >>
    THEN LET sec_scan == ScanMaterials(name_to_price, f.sec_mats.items, 1, "secondary")
         IN IF IsRaise(sec_scan) THEN sec_scan
            ELSE Costs(name_to_price, f,
                       If(base_scan # None, base_scan) \o If(sec_scan # None, sec_scan))
    ELSE Costs(name_to_price, f, reasons)

\* Lines 243-253
BaseScanned(name_to_price, f, reasons, base_scan) ==
    IF IsRaise(base_scan) THEN base_scan
    ELSE IF reasons = << >> /\ base_scan = None
    THEN SecondaryScanned(name_to_price, f,
                          ScanMaterials(name_to_price, f.sec_mats.items, 1, "secondary"))
    ELSE Costs(name_to_price, f, reasons \o If(base_scan # None, base_scan))

\* Lines 220-244
Checked(name_to_price, f, reasons) ==
    BaseScanned(name_to_price, f, reasons,
                IF reasons = << >>
                THEN ScanMaterials(name_to_price, f.base_mats.items, 1, "base")
                ELSE None)

\* x or []
OrEmptyList(x) == IF Truthy(x) THEN x ELSE List(<< >>)

\* n + AMULET_BONUS_DOSES when n is not None (lines 265-267)
ExpectedDoses(n) == IF n # None THEN NumAdd(n, AMULET_BONUS_DOSES) ELSE None

\* Lines 208-218 and 264-267: the locals read from the recipe.
Locals(recipe, n) ==
    [recipe_name |-> DictGet(recipe, "RecipeName", Str(<< >>)),
     output_item_name |-> DictGet(recipe, "OutputItemName", Str(<< >>)),
     recipe_type |-> DictGet(recipe, "RecipeType", Str(<< >>)),
     n |-> n,
     goggles_allowed |-> Truthy(DictGet(recipe, "GogglesAllowed", Bool(FALSE))),
     xp_per_craft |-> safe_float(DictGet(recipe, "XP_per_craft", None)),
     xp_per_hour |-> safe_float(DictGet(recipe, "XP_per_hour", None)),
     base_mats |-> OrEmptyList(DictGet(recipe, "BaseMaterials", None)),
     sec_mats |-> OrEmptyList(DictGet(recipe, "SecondaryMaterials", None)),
     expected_doses |-> ExpectedDoses(n)]

Validate(name_to_price, f) ==
    Checked(name_to_price, f,
            StructuralReasons(f.base_mats, f.sec_mats, f.output_item_name,
                              f.n, f.xp_per_craft, f.xp_per_hour))

compute_recipe(name_to_price, recipe) ==
    Validate(name_to_price, Locals(recipe, safe_int(DictGet(recipe, "N", None))))

\* ------------------------------------------------------------------- inputs

\* Item names of the price dump and of the catalogs.
POT == <<"P","o","t">>
BREW == <<"B","r","e","w">>
ROOT == <<"R","o","o","t">>
VIAL == <<"V","i","a","l">>
HERB == <<"H","e","r","b">>
UNPRICED == <<"Z","z">>

DumpItem(name, price) == Dict(<< <<"name", name>>, <<"price", price>> >>)

\* The price dump of the runs of main(): a "data" container.
MainDump ==
    Dict(<< <<"data", Dict(<< <<"1", DumpItem(Str(POT), Whole(4000))>>,
                              <<"2", DumpItem(Str(BREW), Whole(200))>>,
                              <<"3", DumpItem(Str(ROOT), Whole(400))>>,
                              <<"4", DumpItem(Str(VIAL), Whole(100))>>,
                              <<"5", DumpItem(Str(HERB), Whole(127))>> >>)>> >>)

Material(item, qty) == Dict(<< <<"ItemName", item>>, <<"Quantity", qty>> >>)

DoseMaterial(item, qty) ==
    Dict(<< <<"ItemName", item>>, <<"Quantity", qty>>,
            <<"IsDoseScaledFromFour", Bool(TRUE)>> >>)

MakeRecipe(name, out, n, xpc, xph, goggles, base, sec) ==
    Dict(<< <<"RecipeName", name>>, <<"OutputItemName", out>>, <<"N", n>>,
            <<"GogglesAllowed", goggles>>, <<"XP_per_craft", xpc>>,
            <<"XP_per_hour", xph>>, <<"BaseMaterials", base>>,
            <<"SecondaryMaterials", sec>> >>)

\* All sequences over S of length at most n.
SeqsUpTo(S, n) == UNION {[1..k -> S] : k \in 0..n}

\* The longest material list of a recipe given to compute_recipe.
MaxLines == 2

\* Material lines the early check accepts or reports.
BaseLines ==
    { Material(Str(ROOT), Whole(1)),
      DoseMaterial(Str(<<"B","R","E","W">>), Str(<<"2">>)),
      Material(Str(MISSING_MARKER), Whole(1)),
      Material(Str(UNPRICED), Whole(1)) }

SecLines ==
    { Material(Str(VIAL), Whole(1)),
      Material(None, Whole(1)),
      Material(Str(UNPRICED), Whole(2)) }

\* Every list of at most MaxLines such lines, and beside them: a value that
\* is no list, a line whose Quantity does not parse, a line whose ItemName
\* is a number.
BaseLists ==
    {List(l) : l \in SeqsUpTo(BaseLines, MaxLines)}
    \cup { Str(ROOT),
           List(<<Material(Str(ROOT), Str(<<"l","o","t","s">>))>>),
           List(<<Material(Str(ROOT), Whole(1)), Material(Whole(7), Whole(1))>>) }

\* ... and beside them: an empty dict (falsy, so read as no materials), a
\* number, a line whose Quantity is missing, a line that is no mapping.
SecLists ==
    {List(l) : l \in SeqsUpTo(SecLines, MaxLines)}
    \cup { Dict(<< >>),
           Whole(1),
           List(<<Dict(<< <<"ItemName", Str(VIAL)>> >>)>>),
           List(<<Str(VIAL)>>) }

\* OutputItemName, N, XP_per_craft and XP_per_hour of the recipes: the good
\* values of each beside one bad value at a time, and all bad together.
Scalars ==
    LET brew == Str(<<"b","r","e","w">>)
        xph == Str(<<"2",",","0","0","0">>)
    IN { <<brew, Whole(4), Whole(50), xph>>,
         <<brew, Whole(3), Whole(50), xph>>,
         <<brew, Num(1, 2), Whole(50), xph>>,
         <<brew, Whole(4), None, xph>>,
         <<brew, Whole(4), Whole(50), Whole(0)>>,
         <<brew, Whole(4), Whole(50), Inf>>,
         <<brew, Whole(3), Whole(50), Inf>>,
         <<Str(OCR_MARKER \o <<"?">>), Whole(4), Whole(50), xph>>,
         <<Str(UNPRICED), Whole(4), Whole(50), xph>>,
         <<Str(UNPRICED), Whole(3), Whole(50), Inf>>,
         <<Str(OCR_MARKER \o <<"?">>), Num(1, 2), None, Str(<<"n","/","a">>)>> }

GogglesValues == {Bool(FALSE), Str(<<"y","e","s">>)}

RecipeInputs ==
    { MakeRecipe(Str(<<"r">>), v[1], v[2], v[3], v[4], g, base, sec) :
        v \in Scalars, g \in GogglesValues, base \in BaseLists, sec \in SecLists }

\* The longest container of a price dump given to build_name_to_price.
MaxEntries == 3

\* Items of a price dump: names that differ only in letter case, the
\* fallback name and price fields, fields of the wrong type, a price of 0,
\* an item without a price and an item that is no mapping.
DumpItems ==
    { DumpItem(Str(<<"A","b">>), Whole(10)),
      DumpItem(Str(<<"A","B">>), Whole(20)),
      DumpItem(Str(<<"a","b">>), Whole(30)),
      DumpItem(Str(<<"A","b">>), Whole(0)),
      Dict(<< <<"item_name", Str(<<"C","d">>)>>, <<"ge_price", Whole(5)>> >>),
      Dict(<< <<"name", Whole(7)>>, <<"item_name", Str(<<"a","B">>)>>,
              <<"price", Str(<<"9">>)>>, <<"low", Bool(TRUE)>> >>),
      Dict(<< <<"name", Str(<<"C","D">>)>> >>),
      Whole(3) }

\* The container {"1": items[1], "2": items[2], ...}.
Container(items) == Dict([i \in 1..Len(items) |-> <<Digits[i + 1], items[i]>>])

\* The dump shapes: the items under a known container key, the dump itself
\* as the container, two containers, and a dump that is no mapping.
DumpInputs ==
    UNION { { Dict(<< <<"data", Container(items)>> >>),
              Container(items),
              Dict(<< <<"meta", Str(<<"v","1">>)>>,
                      <<"prices", Container(items)>>,
                      <<"items", Container(<<DumpItem(Str(<<"A","b">>), Whole(40))>>)>> >>) }
            : items \in SeqsUpTo(DumpItems, MaxEntries) }
    \cup {List(<< >>)}

\* The recipes of the catalogs of main().  With Pot at 4000 and N = 1 the
\* revenue after tax of one craft is 1127.
Name(c) == Str(<<c>>)

RAlert ==      \* profit 1027, 3000 crafts/h: 3,081,000 gp/h at 300,000 XP/h
    MakeRecipe(Name("A"), Str(POT), Whole(1), Whole(100), Whole(300000), Bool(FALSE),
               List(<<Material(Str(VIAL), Whole(1))>>), List(<< >>))

REdgeGp ==     \* profit 1000, 3000 crafts/h: exactly 3,000,000 gp/h
    MakeRecipe(Name("B"), Str(POT), Whole(1), Whole(100), Whole(300000), Bool(FALSE),
               List(<<Material(Str(HERB), Whole(1))>>), List(<< >>))

REdgeXp ==     \* 5,135,000 gp/h at exactly 250,000 XP/h
    MakeRecipe(Name("C"), Str(POT), Whole(1), Whole(50), Whole(250000), Bool(FALSE),
               List(<<Material(Str(VIAL), Whole(1))>>), List(<< >>))

RLow ==        \* profit -296.65, 40 crafts/h: -11,866 gp/h
    MakeRecipe(Name("D"), Str(BREW), Whole(4), Whole(50), Str(<<"2",",","0","0","0">>),
               Bool(FALSE), List(<<Material(Str(ROOT), Whole(1))>>),
               List(<<Material(Str(VIAL), Whole(1))>>))

RTie ==        \* the same gp/h as RLow
    MakeRecipe(Name("E"), Str(BREW), Whole(4), Whole(100), Whole(4000),
               Bool(FALSE), List(<<Material(Str(ROOT), Whole(1))>>),
               List(<<Material(Str(VIAL), Whole(1))>>))

RNoN ==        \* invalid: N is missing
    MakeRecipe(Name("F"), Str(POT), None, Whole(100), Whole(300000), Bool(FALSE),
               List(<<Material(Str(VIAL), Whole(1))>>), List(<< >>))

RNoPrice ==    \* invalid: a material without a price
    MakeRecipe(Name("G"), Str(POT), Whole(1), Whole(100), Whole(300000), Bool(FALSE),
               List(<<Material(Str(UNPRICED), Whole(1))>>), List(<< >>))

RBadName ==    \* a material whose ItemName is a number
    MakeRecipe(Name("H"), Str(POT), Whole(1), Whole(100), Whole(300000), Bool(FALSE),
               List(<<Material(Whole(7), Whole(1))>>), List(<< >>))

RInfXp ==      \* XP_per_hour 1e999 (inf) at a negative profit: -inf gp/h
    MakeRecipe(Name("I"), Str(BREW), Whole(4), Whole(50), Inf,
               Bool(FALSE), List(<<Material(Str(ROOT), Whole(1))>>),
               List(<<Material(Str(VIAL), Whole(1))>>))

RSurge ==      \* the excluded recipe
    MakeRecipe(Str(<<" ","S","u","r","g","e"," ","P","O","T","I","O","N"," ">>),
               Str(POT), Whole(1), Whole(100), Whole(300000), Bool(FALSE),
               List(<<Material(Str(VIAL), Whole(1))>>), List(<< >>))

RecipePool ==
    {RAlert, REdgeGp, REdgeXp, RLow, RTie, RNoN, RNoPrice, RBadName, RInfXp, RSurge}

\* The longest catalog of a run without a webhook, and of a run with one
\* (the ranking does not read the webhook).
MaxRecipes == 3

MaxPosted == 1

\* The catalog files: no file, a file without the recipes key, and the
\* catalogs of at most n recipes of the pool.
CatalogFiles(n) ==
    {None, Dict(<< <<"version", Whole(1)>> >>)}
    \cup {Dict(<< <<"recipes", List(rs)>> >>) : rs \in SeqsUpTo(RecipePool, n)}

\* The most chunks of a posted message.
MaxChunks == 2

\* Lengths of the compact message (never empty: it starts with a header).
ContentLengths ==
    UNION {{c * DISCORD_CONTENT_LIMIT, c * DISCORD_CONTENT_LIMIT + 1} : c \in 0..(MaxChunks - 1)}
    \ {0}

\* What urlopen gives: a response, an HTTPError with its code and its body
\* parsed as JSON (None: no JSON), or no response at all (URLError).
Ok == [kind |-> "ok", code |-> 204, body |-> None]

HttpError(code, body) == [kind |-> "HTTPError", code |-> code, body |-> body]

RetryAfterBody(v) == Dict(<< <<"retry_after", v>> >>)

Responses ==
    { Ok,
      HttpError(403, None),
      [kind |-> "URLError", code |-> 0, body |-> None],
      HttpError(429, None),
      HttpError(429, Dict(<< <<"message", Str(<<"s","l","o","w">>)>> >>)),
      HttpError(429, RetryAfterBody(Num(1, 4))),
      HttpError(429, RetryAfterBody(Num(7, 2))),
      HttpError(429, RetryAfterBody(Str(<<"1","2">>))),
      HttpError(429, RetryAfterBody(Inf)) }

\* DISCORD_WEBHOOK_URL: not set, and set (with a blank that strip() removes).
Webhooks == {<< >>, <<" ","h","t","t","p",":","/","/","h">>}

\* ------------------------------------------------------------------ ranking

\* sort_key of main()
sort_key(r) ==
    IF r.valid /\ r.gp_per_hour.t = "num" THEN r.gp_per_hour ELSE NegInf

\* One step of a stable descending insertion: r goes before the first
\* element whose key is smaller, so after every element with an equal key.
InsertDescending(sorted, r) ==
    LET smaller == {i \in 1..Len(sorted) : NumLt(sort_key(sorted[i]), sort_key(r))}
        at == IF smaller = {} THEN Len(sorted) + 1
              ELSE CHOOSE i \in smaller : \A j \in smaller : i <= j
    IN SubSeq(sorted, 1, at - 1) \o <<r>> \o SubSeq(sorted, at, Len(sorted))

RECURSIVE SortDescending(_, _, _)
SortDescending(rows, i, sorted) ==
    IF i > Len(rows) THEN sorted
    ELSE SortDescending(rows, i + 1, InsertDescending(sorted, rows[i]))

Rearrangements(rows) ==
    {[i \in 1..Len(rows) |-> rows[p[i]]] :
        p \in {q \in [1..Len(rows) -> 1..Len(rows)] :
                  \A i, j \in 1..Len(rows) : q[i] = q[j] => i = j}}

\* sorted(rows, key=sort_key, reverse=True): the stable descending order.
\* A NaN key compares false with every key, the keys are then not ordered
\* and the order of the result is left open.
sorted_reverse(rows) ==
    IF \E i \in 1..Len(rows) : IsNaN(sort_key(rows[i]))
    THEN Rearrangements(rows)
    ELSE {SortDescending(rows, 1, << >>)}

\* in_table_b with the gp_per_hour threshold itself let through.
in_table_b_inclusive(r) ==
    /\ r.valid
    /\ r.gp_per_hour # None
    /\ r.XP_per_hour # None
    /\ ~NumLt(r.gp_per_hour, Whole(ALERT_GP_PER_HOUR))
    /\ NumGt(r.XP_per_hour, Whole(ALERT_XP_PER_HOUR))

\* The filter of lines 441-442.
in_table_b(r) ==
    /\ r.valid
    /\ r.gp_per_hour # None
    /\ r.XP_per_hour # None
    /\ NumGt(r.gp_per_hour, Whole(ALERT_GP_PER_HOUR))
    /\ NumGt(r.XP_per_hour, Whole(ALERT_XP_PER_HOUR))

\* Lines 411-422: the recipes of the catalog file without "Surge potion", or
\* the exception raised.
load_recipes(file) ==
    IF file = None THEN Raise("FileNotFoundError")
    ELSE IF file.t # "dict" THEN Raise("AttributeError")
    ELSE LET recipes == DictGet(file, "recipes", None)
         IN IF recipes.t # "list" THEN Raise("ValueError")
            ELSE IF \E i \in 1..Len(recipes.items) : recipes.items[i].t # "dict"
                 THEN Raise("AttributeError")
            ELSE List(SelectSeq(recipes.items,
                     LAMBDA r : Lower(Strip(PyStr(DictGet(r, "RecipeName", Str(<< >>)))))
                                # <<"s","u","r","g","e"," ","p","o","t","i","o","n">>))

\* ------------------------------------------------------------- discord_post

\* Line 368: the chunks of a content of the given length, each by its length.
chunks_of(len) ==
    LET n == (len + DISCORD_CONTENT_LIMIT - 1) \div DISCORD_CONTENT_LIMIT
        cut == [i \in 1..n |-> IF i * DISCORD_CONTENT_LIMIT <= len
                               THEN DISCORD_CONTENT_LIMIT
                               ELSE len - (i - 1) * DISCORD_CONTENT_LIMIT]
    IN IF n = 0 THEN <<7>> ELSE cut

\* float(x) of the retry_after field.
PyFloat(v) ==
    CASE v.t = "num" -> v
      [] v.t = "bool" -> IF v.b THEN Whole(1) ELSE Whole(0)
      [] v.t = "str" -> ParseFloat(v.s)
      [] OTHER -> Raise("TypeError")

\* retry_after_of with the delay rounded down.
retry_after_of_floor(body) ==
    IF body.t # "dict" THEN 2
    ELSE LET f == PyFloat(DictGet(body, "retry_after", Whole(2)))
             c == IF IsRaise(f) THEN f ELSE Trunc(f)
         IN IF IsRaise(c) THEN 2
            ELSE IF c.n > 1 THEN c.n ELSE 1

\* Lines 386-392: the delay in seconds taken from the body of a 429.
retry_after_of(body) ==
    IF body.t # "dict" THEN 2
    ELSE LET f == PyFloat(DictGet(body, "retry_after", Whole(2)))
             c == IF IsRaise(f) THEN f ELSE Ceil(f)
         IN IF IsRaise(c) THEN 2
            ELSE IF c.n > 1 THEN c.n ELSE 1

\* -------------------------------------------------------------------- state

VARIABLES
    pc,             \* where main() is
    webhook,        \* DISCORD_WEBHOOK_URL
    catalog,        \* the catalog file read
    recipes,        \* its recipes after the exclusion filter
    name_to_price,  \* the price index
    computed,       \* the results of compute_recipe
    table_a,
    table_b,
    chunks,         \* discord_post: the chunks, each by its length
    chunk,          \* the index of the chunk being delivered
    response,       \* what the last urlopen gave
    slept,          \* the seconds of the last time.sleep
    requests,       \* the chunk index of every request sent, in order
    status,         \* the exit status of the run, or the exception that ended it
    call,           \* a single function's call: its argument
    ret             \* and its result, None before it returns

vars == <<pc, webhook, catalog, recipes, name_to_price, computed, table_a, table_b,
          chunks, chunk, response, slept, requests, status, call, ret>>

run_vars == <<pc, webhook, catalog, recipes, computed, table_a, table_b,
              chunks, chunk, response, slept, requests, status>>

post_vars == <<chunks, chunk, response, slept, requests>>

Idle ==
    /\ catalog = None /\ recipes = << >> /\ computed = << >>
    /\ table_a = << >> /\ table_b = << >>
    /\ chunks = << >> /\ chunk = 0 /\ response = None /\ slept = 0 /\ requests = << >>
    /\ status = None

\* --------------------------------------------------------------------- main

Init ==
    /\ pc = "start"
    /\ webhook \in Webhooks
    /\ name_to_price = EmptyIndex
    /\ Idle
    /\ call = None /\ ret = None

Loaded(file, loaded) ==
    /\ catalog' = file
    /\ IF IsRaise(loaded)
       THEN pc' = "raised" /\ recipes' = recipes /\ status' = loaded
       ELSE pc' = "loaded" /\ recipes' = loaded.items /\ status' = status

\* Lines 410-422
LoadCatalog ==
    /\ pc = "start"
    /\ \E file \in CatalogFiles(IF Strip(webhook) = << >> THEN MaxRecipes ELSE MaxPosted) :
        Loaded(file, load_recipes(file))
    /\ UNCHANGED <<webhook, name_to_price, computed, table_a, table_b, post_vars, call, ret>>

\* Lines 424-426: the dump is fetched, or the fetch fails.
FetchPrices ==
    /\ pc = "loaded"
    /\ \E dump \in {MainDump, Raise("URLError")} :
        IF IsRaise(dump)
        THEN pc' = "raised" /\ status' = dump /\ UNCHANGED name_to_price
        ELSE pc' = "priced" /\ status' = status
             /\ name_to_price' = build_name_to_price(dump)
    /\ UNCHANGED <<webhook, catalog, recipes, computed, table_a, table_b, post_vars, call, ret>>

Computed(results, raising) ==
    IF raising = {}
    THEN pc' = "computed" /\ computed' = results /\ status' = status
    ELSE pc' = "raised" /\ computed' = computed
         /\ status' = results[CHOOSE i \in raising : \A j \in raising : i <= j]

Raising(results) == {i \in 1..Len(results) : IsRaise(results[i])}

ComputeAll(results) == Computed(results, Raising(results))

\* Line 429: the first exception of a compute_recipe ends the run.
Compute ==
    /\ pc = "priced"
    /\ ComputeAll([i \in 1..Len(recipes) |-> compute_recipe(name_to_price, recipes[i])])
    /\ UNCHANGED <<webhook, catalog, recipes, name_to_price, table_a, table_b, post_vars,
                   call, ret>>

\* Lines 431-438
SortTableA ==
    /\ pc = "computed"
    /\ table_a' \in sorted_reverse(computed)
    /\ pc' = "sorted"
    /\ UNCHANGED <<webhook, catalog, recipes, name_to_price, computed, table_b, post_vars,
                   status, call, ret>>

\* Lines 440-442
FilterAlerts ==
    /\ pc = "sorted"
    /\ table_b' = SelectSeq(table_a, in_table_b)
    /\ pc' = "filtered"
    /\ UNCHANGED <<webhook, catalog, recipes, name_to_price, computed, table_a, post_vars,
                   status, call, ret>>

\* Lines 444-499: the report is rendered, written and printed.
WriteOutputs ==
    /\ pc = "filtered"
    /\ pc' = "written"
    /\ UNCHANGED <<webhook, catalog, recipes, name_to_price, computed, table_a, table_b,
                   post_vars, status, call, ret>>

\* Lines 501-524 and 368-370: without a webhook nothing is posted; with one
\* the compact message is cut into chunks.
StartPost ==
    /\ pc = "written"
    /\ IF Strip(webhook) = << >>
       THEN pc' = "return" /\ chunks' = chunks /\ chunk' = chunk
       ELSE \E len \in ContentLengths :
               pc' = "post" /\ chunks' = chunks_of(len) /\ chunk' = 1
    /\ UNCHANGED <<webhook, catalog, recipes, name_to_price, computed, table_a, table_b,
                   response, slept, requests, status, call, ret>>

\* The end of one iteration of the loop of line 372.
NextChunk == IF chunk < Len(chunks) THEN "post" ELSE "return"

\* Lines 372-403: the first request of a chunk.  A 429 is answered by the
\* sleep of line 393; any other HTTPError is printed and ends discord_post;
\* an exception that is no HTTPError is not caught.
PostAttempt ==
    /\ pc = "post"
    /\ \E resp \in Responses :
        /\ response' = resp
        /\ requests' = Append(requests, chunk)
        /\ IF resp.kind = "ok"
           THEN /\ pc' = NextChunk
                /\ chunk' = IF chunk < Len(chunks) THEN chunk + 1 ELSE chunk
                /\ slept' = slept /\ status' = status
           ELSE IF resp.kind = "HTTPError" /\ resp.code = 429
           THEN /\ pc' = "retry" /\ chunk' = chunk /\ status' = status
                /\ slept' = retry_after_of(resp.body)
           ELSE IF resp.kind = "HTTPError"
           THEN pc' = "return" /\ chunk' = chunk /\ slept' = slept /\ status' = status
           ELSE /\ pc' = "raised" /\ chunk' = chunk /\ slept' = slept
                /\ status' = Raise(resp.kind)
    /\ UNCHANGED <<webhook, catalog, recipes, name_to_price, computed, table_a, table_b,
                   chunks, call, ret>>

\* Lines 394-395: the request sent again after the sleep, outside any try.
PostRetry ==
    /\ pc = "retry"
    /\ \E resp \in Responses :
        /\ response' = resp
        /\ requests' = Append(requests, chunk)
        /\ IF resp.kind = "ok"
           THEN /\ pc' = NextChunk
                /\ chunk' = IF chunk < Len(chunks) THEN chunk + 1 ELSE chunk
                /\ status' = status
           ELSE pc' = "raised" /\ chunk' = chunk /\ status' = Raise(resp.kind)
    /\ UNCHANGED <<webhook, catalog, recipes, name_to_price, computed, table_a, table_b,
                   chunks, slept, call, ret>>

\* Line 526
Return ==
    /\ pc = "return"
    /\ pc' = "returned"
    /\ status' = [t |-> "exit", code |-> 0]
    /\ UNCHANGED <<webhook, catalog, recipes, name_to_price, computed, table_a, table_b,
                   post_vars, call, ret>>

Next ==
    \/ LoadCatalog
    \/ FetchPrices
    \/ Compute
    \/ SortTableA
    \/ FilterAlerts
    \/ WriteOutputs
    \/ StartPost
    \/ PostAttempt
    \/ PostRetry
    \/ Return

Spec == Init /\ [][Next]_vars

\* ------------------------------------------------- compute_recipe on its own

InitRecipe ==
    /\ pc = "call" /\ webhook = << >> /\ Idle
    /\ name_to_price = build_name_to_price(MainDump)
    /\ call \in {[fn |-> "compute_recipe", arg |-> r] : r \in RecipeInputs}
    /\ ret = None

CallComputeRecipe ==
    /\ call.fn = "compute_recipe"
    /\ ret = None
    /\ ret' = compute_recipe(name_to_price, call.arg)
    /\ UNCHANGED <<run_vars, name_to_price, call>>

NextRecipe == CallComputeRecipe

SpecRecipe == InitRecipe /\ [][NextRecipe]_vars

\* ------------------------------------------- build_name_to_price on its own

InitIndex ==
    /\ pc = "call" /\ webhook = << >> /\ Idle
    /\ name_to_price = EmptyIndex
    /\ call \in {[fn |-> "build_name_to_price", arg |-> d] : d \in DumpInputs}
    /\ ret = None

CallBuildIndex ==
    /\ call.fn = "build_name_to_price"
    /\ ret = None
    /\ name_to_price' = build_name_to_price(call.arg)
    /\ ret' = Bool(TRUE)
    /\ UNCHANGED <<run_vars, call>>

NextIndex == CallBuildIndex

SpecIndex == InitIndex /\ [][NextIndex]_vars

\* ===================================================================== claims

\* The call of compute_recipe has returned a result (not raised).
Returned == ret # None /\ ret.t = "dict"

\* ------------------------------------------------------------------------ C1
\* C1: a result of compute_recipe is valid exactly when its invalid_reasons is
\* empty; an invalid result has crafts_per_hour, profit_per_craft and
\* gp_per_hour all absent, a valid result has all three as numbers.
C1_ValidIffNoReasons ==
    Returned =>
        /\ ret.valid <=> ret.invalid_reasons = << >>
        /\ ~ret.valid => /\ ret.crafts_per_hour = None
                         /\ ret.profit_per_craft = None
                         /\ ret.gp_per_hour = None
        /\ ret.valid => /\ IsNum(ret.crafts_per_hour)
                        /\ IsNum(ret.profit_per_craft)
                        /\ IsNum(ret.gp_per_hour)

\* An invalid result whose only reason was found after the structural checks
\* and the early price check had passed.
C1_Witness ==
    /\ Returned
    /\ ret.invalid_reasons = <<Reason("Missing price for base materials")>>
    /\ ~ret.valid
    /\ ret.gp_per_hour = None

\* ----------------------------------------------------------------------- C10
\* C10: invalid_reasons contains no reason twice.
C10_NoDuplicateReasons ==
    Returned =>
        \A i, j \in 1..Len(ret.invalid_reasons) :
            i # j => ret.invalid_reasons[i] # ret.invalid_reasons[j]

\* ------------------------------------------------------------------------ C9
StructuralMessages ==
    {"Invalid materials list shape", "Missing OutputItemName", "Missing/invalid N",
     "Missing/invalid XP_per_craft", "Missing/invalid XP_per_hour"}

BaseScanMessages == {"Missing base material ItemName", "Missing price for base material"}

SecondaryScanMessages ==
    {"Missing secondary material ItemName", "Missing price for secondary material"}

IsScanReason(r) == r.msg \in BaseScanMessages \cup SecondaryScanMessages

IsStructuralReason(r) == r.msg \in StructuralMessages

\* The material lines of the recipe given to the call.
LinesOf(key) == OrEmptyList(DictGet(call.arg, key, None)).items

\* A line the early price check reports: no name, or a name without a price.
Offends(m) ==
    /\ m.t = "dict"
    /\ \/ is_marker_missing(DictGet(m, "ItemName", None))
       \/ /\ DictGet(m, "ItemName", None).t = "str"
          /\ price_of(name_to_price, DictGet(m, "ItemName", None)) = None

FirstOffending(lines) ==
    IF \E k \in 1..Len(lines) : Offends(lines[k])
    THEN CHOOSE k \in 1..Len(lines) :
             Offends(lines[k]) /\ \A j \in 1..(k - 1) : ~Offends(lines[j])
    ELSE 0

ReasonOfLine(m, no_name, no_price) ==
    IF is_marker_missing(DictGet(m, "ItemName", None)) THEN Reason(no_name)
    ELSE ReasonFor(no_price, DictGet(m, "ItemName", None).s)

\* C9: the early price existence check runs only when the structural checks
\* recorded no reason, and then records at most one reason: the one of the
\* first base line that has no name or no price, and only when the base list
\* has none, the one of the first such secondary line.
C9_EarlyCheckFirstOffender ==
    Returned =>
        LET scan == SelectSeq(ret.invalid_reasons, IsScanReason)
            structural == SelectSeq(ret.invalid_reasons, IsStructuralReason)
        IN /\ Len(scan) <= 1
           /\ structural # << >> => scan = << >>
           /\ structural = << >> =>
                LET b == FirstOffending(LinesOf("BaseMaterials"))
                    s == FirstOffending(LinesOf("SecondaryMaterials"))
                IN scan =
                     IF b > 0
                     THEN <<ReasonOfLine(LinesOf("BaseMaterials")[b],
                                         "Missing base material ItemName",
                                         "Missing price for base material")>>
                     ELSE IF s > 0
                     THEN <<ReasonOfLine(LinesOf("SecondaryMaterials")[s],
                                         "Missing secondary material ItemName",
                                         "Missing price for secondary material")>>
                     ELSE << >>

\* The second base line is the first one without a price, the secondary list
\* opens with a line to report too, and only the base line is reported.
C9_Witness ==
    /\ Returned
    /\ ret.invalid_reasons = <<ReasonFor("Missing price for base material", UNPRICED)>>
    /\ Len(LinesOf("BaseMaterials")) = 2
    /\ ~Offends(LinesOf("BaseMaterials")[1])
    /\ Offends(LinesOf("BaseMaterials")[2])
    /\ Len(LinesOf("SecondaryMaterials")) >= 1
    /\ Offends(LinesOf("SecondaryMaterials")[1])

\* ------------------------------------------------------------------------ C7
\* The cost of one material line in quarters of a gp, prices and quantities
\* being whole numbers: price * quantity * 4, or price * quantity * N for a
\* dose-scaled line.
QuartersOfLine(m, n) ==
    price_of(name_to_price, DictGet(m, "ItemName", None)).n
    * safe_float(DictGet(m, "Quantity", None)).n
    * (IF \/ Truthy(DictGet(m, "IsDoseScaledFromFour", Bool(FALSE)))
          \/ Truthy(DictGet(m, "DoseScaledFromFourPerDose", Bool(FALSE)))
       THEN n ELSE 4)

RECURSIVE QuartersOf(_, _, _)
QuartersOf(lines, n, i) ==
    IF i > Len(lines) THEN 0
    ELSE QuartersOfLine(lines[i], n) + QuartersOf(lines, n, i + 1)

\* (price_of(output)/4) * (N + 0.15) * 0.98 - (base + secondary * m) over the
\* common denominator 4000.
ClosedFormProfit ==
    Num(price_of(name_to_price, ret.OutputItemName).n * (20 * ret.N.n + 3) * 49
        - 1000 * QuartersOf(LinesOf("BaseMaterials"), ret.N.n, 1)
        - 100 * (IF ret.GogglesAllowed THEN 9 ELSE 10)
              * QuartersOf(LinesOf("SecondaryMaterials"), ret.N.n, 1),
        4000)

ClosedFormCrafts ==
    Num(ret.XP_per_hour.n * ret.XP_per_craft.d, ret.XP_per_hour.d * ret.XP_per_craft.n)

\* The recipe of the worked example: N = 4, 50 XP per craft, 2,000 XP per
\* hour, base cost 400, secondary cost 100, no goggles, 50 gp per dose.
ExampleRecipe ==
    MakeRecipe(Str(<<"r">>), Str(<<"b","r","e","w">>), Whole(4), Whole(50),
               Str(<<"2",",","0","0","0">>), Bool(FALSE),
               List(<<Material(Str(ROOT), Whole(1))>>),
               List(<<Material(Str(VIAL), Whole(1))>>))

\* C7: for a valid recipe profit_per_craft = (price_of(output)/4) * (N + 0.15)
\* * 0.98 - (base_cost + secondary_cost * m), m = 0.9 with GogglesAllowed and
\* 1 without, a line costing price * quantity, or (price/4) * N * quantity
\* when dose-scaled; crafts_per_hour = XP_per_hour / XP_per_craft; gp_per_hour
\* = profit_per_craft * crafts_per_hour.  The worked example gives -296.65,
\* 40 and -11866, valid, no alert.
C7_ClosedForm ==
    /\ (Returned /\ ret.valid /\ IsFinite(ret.XP_per_hour)) =>
          /\ ret.profit_per_craft = ClosedFormProfit
          /\ ret.crafts_per_hour = ClosedFormCrafts
          /\ ret.gp_per_hour =
                Num(ClosedFormProfit.n * ClosedFormCrafts.n,
                    ClosedFormProfit.d * ClosedFormCrafts.d)
    /\ (Returned /\ ret.valid /\ ~IsFinite(ret.XP_per_hour)) =>
          /\ ret.profit_per_craft = ClosedFormProfit
          /\ ret.crafts_per_hour = ret.XP_per_hour
          /\ ret.gp_per_hour = Num(Sign(ClosedFormProfit.n) * Sign(ret.XP_per_hour.n), 0)
    /\ (ret # None /\ call.arg = ExampleRecipe) =>
          /\ Returned /\ ret.valid /\ ~ret.is_alert
          /\ ret.profit_per_craft = Num(-5933, 20)
          /\ ret.crafts_per_hour = Whole(40)
          /\ ret.gp_per_hour = Whole(-11866)

\* A valid goggles recipe with a dose-scaled base line, a plain base line and
\* a secondary line.
C7_Witness ==
    /\ Returned /\ ret.valid /\ ret.GogglesAllowed /\ IsFinite(ret.XP_per_hour)
    /\ \E i \in 1..Len(LinesOf("BaseMaterials")) :
           Truthy(DictGet(LinesOf("BaseMaterials")[i], "IsDoseScaledFromFour", Bool(FALSE)))
    /\ \E i \in 1..Len(LinesOf("BaseMaterials")) :
           ~Truthy(DictGet(LinesOf("BaseMaterials")[i], "IsDoseScaledFromFour", Bool(FALSE)))
    /\ LinesOf("SecondaryMaterials") # << >>
    /\ ret.gp_per_hour = Num(ClosedFormProfit.n * ClosedFormCrafts.n,
                             ClosedFormProfit.d * ClosedFormCrafts.d)

\* ------------------------------------------------------------------------ C8
\* C8: the index of build_name_to_price holds every stored name under its
\* lowercase form too, with the same price under both, so that price_of
\* answers the same for a stored name and for its lowercase form.
C8_LowercaseAgrees ==
    (call.fn = "build_name_to_price" /\ ret # None) =>
        \A n \in DOMAIN name_to_price :
            /\ Lower(n) \in DOMAIN name_to_price
            /\ name_to_price[n] = name_to_price[Lower(n)]
            /\ price_of(name_to_price, Str(n)) = price_of(name_to_price, Str(Lower(n)))

\* ------------------------------------------------------------------------ C2
\* Table A has been built.
Ranked ==
    \/ pc \in {"sorted", "filtered", "written", "post", "retry", "return", "returned"}
    \/ pc = "raised" /\ requests # << >>

\* The key of the claim: gp_per_hour if valid, otherwise negative infinity.
KeyOf(r) == IF r.valid THEN r.gp_per_hour ELSE NegInf

Occurrences(rows, r) == Cardinality({i \in 1..Len(rows) : rows[i] = r})

\* C2: Table A is a permutation of the evaluated recipes; every valid recipe
\* precedes every invalid one; gp_per_hour is non-increasing along the valid
\* recipes; recipes with equal keys keep their order of evaluation.
C2_TableAStableDescending ==
    Ranked =>
        /\ Len(table_a) = Len(computed)
        /\ \A i \in 1..Len(computed) :
               Occurrences(table_a, computed[i]) = Occurrences(computed, computed[i])
        /\ \A i, j \in 1..Len(table_a) :
               i < j => (table_a[i].valid \/ ~table_a[j].valid)
        /\ \A i, j \in 1..Len(table_a) :
               (i < j /\ table_a[i].valid /\ table_a[j].valid) =>
                   ~NumLt(table_a[i].gp_per_hour, table_a[j].gp_per_hour)
        /\ \A i \in 1..Len(computed) :
               SelectSeq(table_a, LAMBDA r : KeyOf(r) = KeyOf(computed[i]))
               = SelectSeq(computed, LAMBDA r : KeyOf(r) = KeyOf(computed[i]))

\* ------------------------------------------------------------------------ C3
\* Table B has been built.
Filtered ==
    \/ pc \in {"filtered", "written", "post", "retry", "return", "returned"}
    \/ pc = "raised" /\ requests # << >>

\* x > limit for a whole limit, x = n/d a number or an infinity.
Exceeds(x, limit) ==
    /\ x.t = "num"
    /\ \/ x.d > 0 /\ x.n > limit * x.d
       \/ x.d = 0 /\ x.n = 1

Alerting(r) ==
    r.valid /\ Exceeds(r.gp_per_hour, 3000000) /\ Exceeds(r.XP_per_hour, 250000)

\* C3: Table B is the subsequence of Table A, in its order, of the valid
\* recipes with gp_per_hour > 3,000,000 and XP_per_hour > 250,000, both
\* strict; a recipe is in Table B exactly when compute_recipe's alert flag
\* for it is true.
C3_TableBIsAlerts ==
    Filtered =>
        /\ table_b = SelectSeq(table_a, Alerting)
        /\ \A i \in 1..Len(table_a) :
               table_a[i].is_alert <=> (\E j \in 1..Len(table_b) : table_b[j] = table_a[i])

\* A run whose Table A holds a recipe at exactly 3,000,000 gp/h, one at
\* exactly 250,000 XP/h and one above both, and whose Table B holds the last.
C3_Witness ==
    /\ Filtered
    /\ Len(table_b) = 1
    /\ table_b[1].gp_per_hour = Whole(3081000)
    /\ \E i \in 1..Len(table_a) :
           table_a[i].valid /\ table_a[i].gp_per_hour = Whole(3000000)
    /\ \E i \in 1..Len(table_a) :
           /\ table_a[i].valid /\ table_a[i].XP_per_hour = Whole(250000)
           /\ Exceeds(table_a[i].gp_per_hour, 3000000)

\* ------------------------------------------------------------------------ C4
\* C4: malformed data inside a recipe never aborts the run: from a loaded
\* catalog and a fetched price dump, the evaluation gives a result for every
\* recipe of the catalog.
C4_MalformedRecipeNeverAborts ==
    [][pc = "priced" =>
          /\ pc' = "computed"
          /\ Len(computed') = Len(recipes)
          /\ \A i \in 1..Len(recipes) : computed'[i].t = "dict"]_vars

\* ------------------------------------------------------------------------ C5
\* C5: with a webhook configured, no failure response of the endpoint, to a
\* first attempt or to a retry, ends the run with an exception.
C5_DeliveryFailuresNonFatal ==
    ~(pc = "raised" /\ requests # << >> /\ response.kind = "HTTPError")

\* ------------------------------------------------------------------------ C6
AttemptsOf(k) == Cardinality({i \in 1..Len(requests) : requests[i] = k})

RateLimited(resp) == resp.kind = "HTTPError" /\ resp.code = 429

\* The delay a 429 carries: a finite number, or a string that reads as one.
ProvidedDelay(resp) ==
    IF resp.body.t = "dict" /\ DictGet(resp.body, "retry_after", None).t \in {"num", "str"}
    THEN PyFloat(DictGet(resp.body, "retry_after", None))
    ELSE None

\* k = max(1, ceil(x))
IsWaitFor(k, x) ==
    /\ k >= 1
    /\ k * x.d >= x.n
    /\ k = 1 \/ (k - 1) * x.d < x.n

\* No chunk is attempted more than twice; the requests go through the chunks
\* in order; the wait before a retry is max(1, ceil(retry_after)).
C6_State ==
    /\ \A k \in 1..Len(chunks) : AttemptsOf(k) <= 2
    /\ requests # << >> => requests[1] = 1
    /\ \A i \in 1..(Len(requests) - 1) :
           requests[i + 1] \in {requests[i], requests[i] + 1}
    /\ (pc = "retry" /\ IsNum(ProvidedDelay(response)) /\ IsFinite(ProvidedDelay(response))) =>
           IsWaitFor(slept, ProvidedDelay(response))

\* A second attempt of a chunk follows a 429 to its first attempt, a 429 to
\* a first attempt is followed by the second attempt, and a chunk is first
\* attempted only after the attempts of the chunk before it.
C6_Step ==
    /\ (requests' # requests /\ AttemptsOf(chunk) = 1) =>
           RateLimited(response) /\ requests' = Append(requests, chunk)
    /\ (requests' # requests /\ AttemptsOf(chunk) = 0 /\ RateLimited(response')) =>
           pc' = "retry"
    /\ (requests' # requests /\ ~RateLimited(response')) => pc' # "retry"
    /\ pc = "retry" => requests' = Append(requests, chunk)
    /\ (requests' # requests /\ AttemptsOf(chunk) = 0) =>
           /\ requests' = Append(requests, chunk)
           /\ \A k \in 1..(chunk - 1) : AttemptsOf(k) >= 1

\* C6: a chunk gets a second delivery attempt if and only if its first got a
\* 429, never a third; before the retry discord_post waits max(1,
\* ceil(retry_after)); the chunks are attempted one after the other in
\* content order.
C6_RetryOnceAfter429 == [](C6_State) /\ [][C6_Step]_vars

\* The second chunk of a message is about to be retried after a 429 that
\* asked for 3.5 seconds, the first chunk having been retried too.
C6_Witness ==
    /\ pc = "retry"
    /\ chunk = 2
    /\ requests = <<1, 1, 2>>
    /\ response = HttpError(429, RetryAfterBody(Num(7, 2)))
    /\ slept = 4

====
